---------------------------- MODULE Spec2Model ----------------------------
(***************************************************************************)
(* Model of the wardrive coverage API (functions/api/samples.js): the      *)
(* geohash bucketer, the time-decay helper, the two drafts of the ingest   *)
(* handler that the file holds (single 'coverage' document, and one KV key *)
(* per cell) and the Workers-KV store they read and write.                 *)
(*                                                                         *)
(* Conventions.  A JavaScript value that may be undefined/null is a tuple: *)
(* <<>> for undefined/null and <<v>> for the value v.  Timestamps are ISO  *)
(* strings of one format in the code; they are modelled by integers        *)
(* (clock ticks, TicksPerDay to the day), which order the same way as the  *)
(* strings do and as Date.getTime() does.  Coordinates are integers on a   *)
(* grid of 2^GridBits steps per half range, so that every midpoint of the  *)
(* bisection is an integer; coordinate 0 is 0 degrees.  In the text of a   *)
(* coordinate (toFixed) StepsPerMicro grid steps make a millionth of a     *)
(* degree, so that coordinates exist between two sixth decimals.           *)
(***************************************************************************)
EXTENDS Integers, Sequences, FiniteSets, TLC

VARIABLES
    deployed,    \* which draft of the handlers is bound: "doc" or "cell"
    kvCoverage,  \* KV value under key 'coverage': <<>> or <<document>>
    kvCells,     \* KV values under keys 'cell:<hash>': hash -> cell
    now,         \* wall clock, in ticks
    reqs,        \* the ingest requests: client -> request record
    pure,        \* last call of a pure helper: [fn, in, out]
    admin,       \* the DELETE request
    reader       \* the GET request

vars == <<deployed, kvCoverage, kvCells, now, reqs, pure, admin, reader>>

----------------------------------------------------------------------------
(* Bounds of the model *)

\* longest batch of probes in one ingest request
MaxBatch == 2
\* clock ticks per day (the clock's resolution)
TicksPerDay == 2
\* last day of the clock in the checks of the pure helpers
MaxDay == 92
\* largest lastUpdate (in ticks) tried in the checks of applyDecay
MaxLastUpdate == 3
\* largest received / lost total tried in the checks of classify
MaxTotal == 100
\* days the clock jumps in one Tick of the store model
TickDays == 8

----------------------------------------------------------------------------
(* JavaScript values *)

None == <<>>
Some(v) == <<v>>

\* truthiness of an optional number (0 is falsy) and of an optional string
NumTruthy(o) == o # None /\ o[1] # 0
StrTruthy(o) == o # None /\ o[1] # ""

\* a || b on optional numbers
NumOr(a, b) == IF NumTruthy(a) THEN a ELSE b

MapPut(m, k, v) == [x \in (DOMAIN m) \cup {k} |-> IF x = k THEN v ELSE m[x]]

\* {...a, ...b}
MapSpread(a, b) ==
    [x \in (DOMAIN a) \cup (DOMAIN b) |-> IF x \in DOMAIN b THEN b[x] ELSE a[x]]

----------------------------------------------------------------------------
(* encodeGeohash *)

GridBits == 19
Pow2(n) == 2 ^ n
LatMax == Pow2(GridBits)
LonMax == Pow2(GridBits)
Precision == 7

base32 ==
    << "0","1","2","3","4","5","6","7","8","9","b","c","d","e","f","g",
       "h","j","k","m","n","p","q","r","s","t","u","v","w","x","y","z" >>

\* a midpoint counted with the upper half
AboveOrOn(x, mid) == x >= mid

\* the test that sends a coordinate to the upper half of its range
Above(x, mid) == x > mid

\* the while loop; steps counts its iterations (one bisection each)
RECURSIVE GeohashLoop(_, _, _, _, _, _, _, _, _, _, _, _)
GeohashLoop(lat, lon, precision, geohash, idx, bit, evenBit, latMin, latMax, lonMin, lonMax, steps) ==
    IF ~(Len(geohash) < precision) THEN [ geohash |-> geohash, steps |-> steps ]
    ELSE
      LET lonMid == (lonMin + lonMax) \div 2
          latMid == (latMin + latMax) \div 2
          up     == IF evenBit THEN Above(lon, lonMid) ELSE Above(lat, latMid)
          idx1   == IF up THEN idx + Pow2(4 - bit) ELSE idx
          lonMin1 == IF evenBit /\ up THEN lonMid ELSE lonMin
          lonMax1 == IF evenBit /\ ~up THEN lonMid ELSE lonMax
          latMin1 == IF ~evenBit /\ up THEN latMid ELSE latMin
          latMax1 == IF ~evenBit /\ ~up THEN latMid ELSE latMax
      IN IF bit < 4
         THEN GeohashLoop(lat, lon, precision, geohash, idx1, bit + 1,
                          ~evenBit, latMin1, latMax1, lonMin1, lonMax1, steps + 1)
         ELSE GeohashLoop(lat, lon, precision,
                          Append(geohash, base32[idx1 + 1]), 0, 0,
                          ~evenBit, latMin1, latMax1, lonMin1, lonMax1, steps + 1)

\* a run that makes one bisection too few for the first symbol
GeohashRunShort(lat, lon, precision) ==
    GeohashLoop(lat, lon, precision, <<>>, 0, 1, FALSE,
                -LatMax, LatMax, -LonMax, LonMax, 0)

\* one run of encodeGeohash: the string returned and the bisections made
GeohashRun(lat, lon, precision) ==
    GeohashLoop(lat, lon, precision, <<>>, 0, 0, TRUE,
                -LatMax, LatMax, -LonMax, LonMax, 0)

encodeGeohash(lat, lon, precision) == GeohashRun(lat, lon, precision).geohash

\* two places in different cells, as <<latitude, longitude>>
PlaceA == << 335826, 30314 >>
PlaceB == << -65536, 3 >>
\* where a comparison with a missing coordinate leads: 'undefined > mid' is
\* false at every bisection, as for the lowest latitude and longitude
PlaceUndefined == << -LatMax, -LonMax >>
\* places with a coordinate of 0 or a missing one
PlaceMeridian == << PlaceA[1], 0 >>
PlaceNoLatitude == << PlaceUndefined[1], PlaceA[2] >>
Places == { PlaceA, PlaceB, PlaceUndefined, PlaceMeridian, PlaceNoLatitude }

GeohashOfPlace == [ p \in Places |-> encodeGeohash(p[1], p[2], Precision) ]


----------------------------------------------------------------------------
(* Probes (the elements of body.samples) *)

Probe(id, latitude, longitude, lat, lng, timestamp, nodeId, pingSuccess, rssi) ==
    [ id |-> id, latitude |-> latitude, longitude |-> longitude,
      lat |-> lat, lng |-> lng, timestamp |-> timestamp, nodeId |-> nodeId,
      repeaterName |-> None, pingSuccess |-> pingSuccess,
      rssi |-> rssi, snr |-> None ]

\* sample.latitude || sample.lat, sample.longitude || sample.lng
CoordLat(s) == NumOr(s.latitude, s.lat)
CoordLng(s) == NumOr(s.longitude, s.lng)

\* a guard that lets every sample through
HasCoordsAny(s) == TRUE

\* a guard that only asks whether a latitude and a longitude are given
HasCoordsGiven(s) ==
    /\ (s.latitude # None \/ s.lat # None)
    /\ (s.longitude # None \/ s.lng # None)

\* if (!lat || !lng) return / continue
HasCoords(s) == NumTruthy(CoordLat(s)) /\ NumTruthy(CoordLng(s))

\* const hash = encodeGeohash(lat, lng, 7), tabulated for the places of the model
HashOf(s) ==
    GeohashOfPlace[<< IF CoordLat(s) = None THEN PlaceUndefined[1] ELSE CoordLat(s)[1],
                      IF CoordLng(s) = None THEN PlaceUndefined[2] ELSE CoordLng(s)[1] >>]

\* sample.nodeId && sample.nodeId !== 'Unknown'
ValidNode(s) == StrTruthy(s.nodeId) /\ s.nodeId[1] # "Unknown"

\* sample.pingSuccess === true || (sample.nodeId && sample.nodeId !== 'Unknown')
IsSuccess(s) == s.pingSuccess = Some(TRUE) \/ ValidNode(s)

\* sample.pingSuccess === false || sample.nodeId === 'Unknown'
IsFailed(s) == s.pingSuccess = Some(FALSE) \/ s.nodeId = Some("Unknown")

\* x || null, for rssi and snr
OrNull(o) == IF NumTruthy(o) THEN o ELSE None

\* sample.repeaterName || nodeId
RepeaterLabel(s) == IF StrTruthy(s.repeaterName) THEN s.repeaterName[1] ELSE s.nodeId[1]

\* sample.timestamp || now
TsOrNow(s, nowTs) == IF s.timestamp # None THEN s.timestamp[1] ELSE nowTs

----------------------------------------------------------------------------
(* computeSampleId.  The key text is a sequence of character codes; the    *)
(* 32-bit accumulator h is kept as two 16-bit limbs <<hi, lo>>.            *)

Limb == 2 ^ 16

RECURSIVE Digits(_)
Digits(n) == IF n < 10 THEN <<48 + n>> ELSE Append(Digits(n \div 10), 48 + (n % 10))

\* text of an integer
IntText(n) == IF n < 0 THEN <<45>> \o Digits(-n) ELSE Digits(n)

\* grid steps to the sixth decimal of a degree, in the text of a coordinate
StepsPerMicro == 10

\* the six decimals of a number of millionths, with leading zeros
RECURSIVE Decimals(_, _)
Decimals(m, width) ==
    IF width = 0 THEN <<>> ELSE Append(Decimals(m \div 10, width - 1), 48 + (m % 10))

\* n.toFixed(6): the sign of n, then its magnitude rounded to the nearest
\* millionth (the larger one when two are as near), with six decimals
ToFixed6(n) ==
    LET x == IF n < 0 THEN -n ELSE n
        m == (2 * x + StepsPerMicro) \div (2 * StepsPerMicro)
    IN (IF n < 0 THEN <<45>> ELSE <<>>) \o Digits(m \div 10 ^ 6) \o <<46>>
         \o Decimals(m % 10 ^ 6, 6)

UndefinedText == <<117, 110, 100, 101, 102, 105, 110, 101, 100>>

\* character codes of the source ids the model uses
StrText(str) ==
    CASE str = "n1" -> <<110, 49>>
      [] str = "n2" -> <<110, 50>>
      [] str = "Unknown" -> <<85, 110, 107, 110, 111, 119, 110>>
      [] OTHER -> <<>>

\* sample.latitude ?? sample.lat
Nullish(a, b) == IF a # None THEN a ELSE b

\* a key text that also takes in the success flag of the sample
KeyTextWithFlag(s) ==
    LET lat == Nullish(s.latitude, s.lat)
        lng == Nullish(s.longitude, s.lng)
        ts  == IF s.timestamp # None THEN IntText(s.timestamp[1]) ELSE <<>>
        node == IF StrTruthy(s.nodeId) THEN StrText(s.nodeId[1]) ELSE <<>>
    IN (IF lat # None THEN ToFixed6(lat[1]) ELSE UndefinedText) \o <<124>> \o
       (IF lng # None THEN ToFixed6(lng[1]) ELSE UndefinedText) \o <<124>> \o
       ts \o <<124>> \o node \o (IF s.pingSuccess = Some(TRUE) THEN <<49>> ELSE <<>>)

KeyText(s) ==
    LET lat == Nullish(s.latitude, s.lat)
        lng == Nullish(s.longitude, s.lng)
        ts  == IF s.timestamp # None THEN IntText(s.timestamp[1]) ELSE <<>>
        node == IF StrTruthy(s.nodeId) THEN StrText(s.nodeId[1]) ELSE <<>>
    IN (IF lat # None THEN ToFixed6(lat[1]) ELSE UndefinedText) \o <<124>> \o
       (IF lng # None THEN ToFixed6(lng[1]) ELSE UndefinedText) \o <<124>> \o
       ts \o <<124>> \o node

\* h = ((h << 5) - h) + c; h |= 0
HashStep(h, c) ==
    LET lo == 31 * h[2] + c
        hi == 31 * h[1] + (lo \div Limb)
    IN << hi % Limb, lo % Limb >>

RECURSIVE HashLoop(_, _, _)
HashLoop(key, i, h) ==
    IF i > Len(key) THEN h ELSE HashLoop(key, i + 1, HashStep(h, key[i]))

\* Math.abs of the signed 32-bit value with limbs h
AbsLimbs(h) ==
    IF h[1] < Limb \div 2 THEN h
    ELSE IF h[2] = 0 THEN << Limb - h[1], 0 >>
    ELSE << Limb - 1 - h[1], Limb - h[2] >>

computeSampleId(s) ==
    IF StrTruthy(s.id) THEN << "id", s.id[1] >>
    ELSE << "h", AbsLimbs(HashLoop(KeyText(s), 1, <<0, 0>>)) >>


----------------------------------------------------------------------------
(* aggregateSamples: the fold of a batch into cells, by geohash *)

NewAggCell(s, nowTs) ==
    [ received |-> 0, lost |-> 0, samples |-> 0, repeaters |-> <<>>,
      firstSeen |-> TsOrNow(s, nowTs), lastUpdate |-> TsOrNow(s, nowTs) ]

\* the repeater entry of a sample
AggRepeater(s, nowTs) ==
    [ name |-> RepeaterLabel(s), rssi |-> OrNull(s.rssi), snr |-> OrNull(s.snr),
      lastSeen |-> TsOrNow(s, nowTs) ]

\* "Update if this is a newer sample for this repeater"
AggNewer(repeaters, s, nowTs) ==
    \/ s.nodeId[1] \notin DOMAIN repeaters
    \/ repeaters[s.nodeId[1]].lastSeen < TsOrNow(s, nowTs)

AggCount(cell, s, nowTs) ==
    IF IsSuccess(s)
    THEN [ cell EXCEPT
             !.received = @ + 1,
             !.repeaters =
                 IF ValidNode(s) /\ AggNewer(@, s, nowTs)
                 THEN MapPut(@, s.nodeId[1], AggRepeater(s, nowTs))
                 ELSE @ ]
    ELSE IF IsFailed(s) THEN [ cell EXCEPT !.lost = @ + 1 ]
    ELSE cell

\* "Keep newest timestamp": sample.timestamp > coverage[hash].lastUpdate
AggStamp(cell, s) ==
    IF s.timestamp # None /\ s.timestamp[1] > cell.lastUpdate
    THEN [ cell EXCEPT !.lastUpdate = s.timestamp[1] ]
    ELSE cell

AggSample(coverage, s, nowTs) ==
    IF ~HasCoords(s) THEN coverage
    ELSE
      LET hash == HashOf(s)
          cell0 == IF hash \in DOMAIN coverage THEN coverage[hash]
                   ELSE NewAggCell(s, nowTs)
          cell1 == AggCount(cell0, s, nowTs)
          cell2 == [ cell1 EXCEPT !.samples = @ + 1 ]
      IN MapPut(coverage, hash, AggStamp(cell2, s))

RECURSIVE AggLoop(_, _, _, _)
AggLoop(samples, i, coverage, nowTs) ==
    IF i > Len(samples) THEN coverage
    ELSE AggLoop(samples, i + 1, AggSample(coverage, samples[i], nowTs), nowTs)

aggregateSamples(samples, nowTs) == AggLoop(samples, 1, <<>>, nowTs)

----------------------------------------------------------------------------
(* onRequestPost, single-document draft: batch dedup and merge *)

\* the samples of the batch whose id was not met earlier in the batch
RECURSIVE BatchUniqueLoop(_, _, _, _)
BatchUniqueLoop(incoming, i, batchIds, batchUnique) ==
    IF i > Len(incoming) THEN batchUnique
    ELSE LET sid == computeSampleId(incoming[i])
         IN IF sid \in batchIds
            THEN BatchUniqueLoop(incoming, i + 1, batchIds, batchUnique)
            ELSE BatchUniqueLoop(incoming, i + 1, batchIds \cup {sid},
                                 Append(batchUnique, incoming[i]))

BatchUnique(incoming) == BatchUniqueLoop(incoming, 1, {}, <<>>)

\* a test that lets every batch replace the cell
DocReplacesAlways(existingCell, newCell) == TRUE

\* "Only update if the new data is actually newer"
DocReplaces(existingCell, newCell) == newCell.lastUpdate > existingCell.lastUpdate

\* the document after "3. MERGE DATA"
DocMerge(existingCoverage, newCoverage) ==
    [ hash \in (DOMAIN existingCoverage) \cup (DOMAIN newCoverage) |->
        IF hash \notin DOMAIN newCoverage THEN existingCoverage[hash]
        ELSE IF hash \notin DOMAIN existingCoverage THEN newCoverage[hash]
        ELSE IF DocReplaces(existingCoverage[hash], newCoverage[hash])
             THEN newCoverage[hash]
             ELSE existingCoverage[hash] ]

DocCellsCreated(existingCoverage, newCoverage) ==
    Cardinality((DOMAIN newCoverage) \ (DOMAIN existingCoverage))

DocCellsUpdated(existingCoverage, newCoverage) ==
    Cardinality({ hash \in (DOMAIN newCoverage) \cap (DOMAIN existingCoverage) :
                    DocReplaces(existingCoverage[hash], newCoverage[hash]) })

----------------------------------------------------------------------------
(* onRequestPost, key-per-cell draft: batch summary and per-cell merge *)

SummaryRepeater(s) ==
    [ name |-> RepeaterLabel(s), rssi |-> OrNull(s.rssi), lastSeen |-> s.timestamp ]

SummarySample(batchSummary, s) ==
    IF ~HasCoords(s) THEN batchSummary
    ELSE
      LET hash == HashOf(s)
          e0 == IF hash \in DOMAIN batchSummary THEN batchSummary[hash]
                ELSE [ received |-> 0, lost |-> 0, lastUpdate |-> s.timestamp,
                       repeaters |-> <<>> ]
          e1 == IF IsSuccess(s) THEN [ e0 EXCEPT !.received = @ + 1 ]
                ELSE [ e0 EXCEPT !.lost = @ + 1 ]
          e2 == IF ValidNode(s)
                THEN [ e1 EXCEPT !.repeaters = MapPut(@, s.nodeId[1], SummaryRepeater(s)) ]
                ELSE e1
      IN MapPut(batchSummary, hash, e2)

RECURSIVE SummaryLoop(_, _, _)
SummaryLoop(samples, i, batchSummary) ==
    IF i > Len(samples) THEN batchSummary
    ELSE SummaryLoop(samples, i + 1, SummarySample(batchSummary, samples[i]))

BatchSummary(samples) == SummaryLoop(samples, 1, <<>>)

\* get(key) || { received: 0, lost: 0, repeaters: {} }
CellDefault == [ received |-> 0, lost |-> 0, repeaters |-> <<>>, lastUpdate |-> None ]

\* a merge that takes the batch's counts away
CellMergeSubtract(existing, newData) ==
    [ received |-> existing.received - newData.received,
      lost |-> existing.lost - newData.lost,
      lastUpdate |-> newData.lastUpdate,
      repeaters |-> MapSpread(existing.repeaters, newData.repeaters) ]

\* "Merge logic"
CellMerge(existing, newData) ==
    [ received |-> existing.received + newData.received,
      lost |-> existing.lost + newData.lost,
      lastUpdate |-> newData.lastUpdate,
      repeaters |-> MapSpread(existing.repeaters, newData.repeaters) ]


----------------------------------------------------------------------------
(* ageInDays and applyDecay.  Factors are in percent; the decayed totals   *)
(* are in hundredths of a probe.                                           *)

\* Math.floor(diffMs / (1000 * 60 * 60 * 24))
ageInDays(timestamp, nowTs) == (nowTs - timestamp) \div TicksPerDay

\* variant: the first step taken a day early
decayFactorDayEarly(age) ==
    IF age > 90 THEN 20
    ELSE IF age > 30 THEN 50
    ELSE IF age > 14 THEN 70
    ELSE IF age >= 7 THEN 85
    ELSE 100

\* variant: the weights of the two oldest steps exchanged
decayFactorSwapped(age) ==
    IF age > 90 THEN 50
    ELSE IF age > 30 THEN 20
    ELSE IF age > 14 THEN 70
    ELSE IF age > 7 THEN 85
    ELSE 100

decayFactor(age) ==
    IF age > 90 THEN 20
    ELSE IF age > 30 THEN 50
    ELSE IF age > 14 THEN 70
    ELSE IF age > 7 THEN 85
    ELSE 100

\* cell.received *= decayFactor; cell.lost *= decayFactor
applyDecay(cell, nowTs) ==
    LET f == decayFactor(ageInDays(cell.lastUpdate, nowTs))
    IN [ cell EXCEPT !.received = @ * f, !.lost = @ * f ]

----------------------------------------------------------------------------
(* The reliability tiers of a cell's totals (getCoverageColor of the map   *)
(* page and the app; here from the thresholds of the specification).       *)

\* variant: the top tier's lower bound made exclusive
classifyExclusiveTop(received, lost) ==
    LET total == received + lost
    IN IF total = 0 THEN "NoData"
       ELSE IF 10 * received > 8 * total THEN "VeryReliable"
       ELSE IF 10 * received >= 5 * total THEN "UsuallyWorks"
       ELSE IF 10 * received >= 3 * total THEN "Spotty"
       ELSE IF 10 * received >= 1 * total THEN "RarelyWorks"
       ELSE "DeadZone"

classify(received, lost) ==
    LET total == received + lost
    IN IF total = 0 THEN "NoData"
       ELSE IF 10 * received >= 8 * total THEN "VeryReliable"
       ELSE IF 10 * received >= 5 * total THEN "UsuallyWorks"
       ELSE IF 10 * received >= 3 * total THEN "Spotty"
       ELSE IF 10 * received >= 1 * total THEN "RarelyWorks"
       ELSE "DeadZone"

----------------------------------------------------------------------------
(* The probes and batches of the store model *)

\* oldest to newest probe time and the clock at the start
T1 == 1
T2 == 2
T3 == 3
NowStart == 4
\* clock jumps in one behaviour
MaxJumps == 1

StoreProbes ==
    { Probe(Some("a"), Some(PlaceA[1]), Some(PlaceA[2]), None, None,
            Some(T2), Some("n1"), Some(TRUE), Some(-70)),
      Probe(Some("b"), Some(PlaceA[1]), Some(PlaceA[2]), None, None,
            Some(T1), Some("n1"), Some(TRUE), Some(-90)),
      Probe(Some("c"), Some(PlaceA[1]), Some(PlaceA[2]), None, None,
            Some(T3), None, Some(FALSE), None),
      Probe(Some("d"), None, None, Some(PlaceB[1]), Some(PlaceB[2]),
            Some(T2), None, Some(TRUE), None),
      Probe(Some("e"), None, None, None, None,
            Some(T3), Some("n1"), Some(TRUE), Some(-50)) }

SeqsUpTo(S, n) == UNION { [1..k -> S] : k \in 0..n }

Batches == SeqsUpTo(StoreProbes, MaxBatch)

Clients == { "r1", "r2" }

IdleReq ==
    [ pc |-> "idle", batch |-> <<>>, delta |-> <<>>, local |-> <<>>,
      todo |-> <<>>, resp |-> None, after |-> {}, aged |-> FALSE, fault |-> FALSE ]

IdlePure == [ fn |-> "none", calls |-> 0, in |-> <<>>, out |-> <<>> ]

Done(c) == reqs[c].pc = "done"
DoneClients == { c \in Clients : Done(c) }

\* JSON.parse of the stored document, or {}
ExistingCoverage == IF kvCoverage = None THEN <<>> ELSE kvCoverage[1]

\* the persisted cell is old enough for applyDecay to scale it
Aged(cell) ==
    cell.lastUpdate # None /\ decayFactor(ageInDays(cell.lastUpdate[1], now)) < 100

----------------------------------------------------------------------------
(* onRequestPost, single-document draft *)

\* the request arrives and its GET of 'coverage' takes effect
DocPostGet(c, batch) ==
    /\ deployed = "doc"
    /\ reqs[c].pc = "idle"
    /\ reqs' = [ reqs EXCEPT ![c] =
          IF Len(batch) = 0
          THEN [ @ EXCEPT !.pc = "done", !.after = DoneClients,
                          !.resp = Some([ status |-> 200, count |-> 0 ]) ]
          ELSE [ @ EXCEPT !.pc = "put", !.batch = batch, !.after = DoneClients,
                          !.local = ExistingCoverage ] ]
    /\ UNCHANGED << deployed, kvCoverage, kvCells, now, pure, admin, reader >>

\* the batch is aggregated and merged, and the PUT of 'coverage' takes effect
DocPostPut(c) ==
    /\ deployed = "doc"
    /\ reqs[c].pc = "put"
    /\ LET existingCoverage == reqs[c].local
           newCoverage == aggregateSamples(BatchUnique(reqs[c].batch), now)
       IN /\ kvCoverage' = Some(DocMerge(existingCoverage, newCoverage))
          /\ reqs' = [ reqs EXCEPT ![c] =
                [ @ EXCEPT
                    !.pc = "done",
                    !.delta = newCoverage,
                    !.aged = \E h \in (DOMAIN newCoverage) \cap (DOMAIN existingCoverage) :
                                 Aged([ lastUpdate |-> Some(existingCoverage[h].lastUpdate) ]),
                    !.resp = Some([ status |-> 200,
                                    processed |-> Len(reqs[c].batch),
                                    cellsCreated |-> DocCellsCreated(existingCoverage, newCoverage),
                                    cellsUpdated |-> DocCellsUpdated(existingCoverage, newCoverage) ]) ] ]
    /\ UNCHANGED << deployed, kvCells, now, pure, admin, reader >>

----------------------------------------------------------------------------
(* onRequestPost, key-per-cell draft *)

\* the request arrives; its samples are grouped and one get per cell is issued
CellPostStart(c, batch) ==
    /\ deployed = "cell"
    /\ reqs[c].pc = "idle"
    /\ LET batchSummary == BatchSummary(batch)
       IN reqs' = [ reqs EXCEPT ![c] =
            IF Len(batch) = 0
            THEN [ @ EXCEPT !.pc = "done", !.after = DoneClients,
                            !.resp = Some([ status |-> 200 ]) ]
            ELSE IF DOMAIN batchSummary = {}
            THEN [ @ EXCEPT !.pc = "done", !.batch = batch, !.after = DoneClients,
                            !.resp = Some([ status |-> 200, processed |-> Len(batch) ]) ]
            ELSE [ @ EXCEPT !.pc = "merge", !.batch = batch, !.after = DoneClients,
                            !.delta = batchSummary,
                            !.todo = [ h \in DOMAIN batchSummary |-> "get" ] ] ]
    /\ UNCHANGED << deployed, kvCoverage, kvCells, now, pure, admin, reader >>

\* the get of 'cell:<hash>' takes effect
CellGet(c, hash) ==
    /\ deployed = "cell"
    /\ reqs[c].pc = "merge"
    /\ hash \in DOMAIN reqs[c].todo
    /\ reqs[c].todo[hash] = "get"
    /\ LET existing == IF hash \in DOMAIN kvCells THEN kvCells[hash] ELSE CellDefault
       IN reqs' = [ reqs EXCEPT ![c] =
            [ @ EXCEPT !.todo = MapPut(@, hash, "put"),
                       !.local = MapPut(@, hash, existing),
                       !.aged = @ \/ Aged(existing) ] ]
    /\ UNCHANGED << deployed, kvCoverage, kvCells, now, pure, admin, reader >>

\* the put of 'cell:<hash>' takes effect; after the last one the response is sent
CellPut(c, hash) ==
    /\ deployed = "cell"
    /\ reqs[c].pc = "merge"
    /\ hash \in DOMAIN reqs[c].todo
    /\ reqs[c].todo[hash] = "put"
    /\ kvCells' = MapPut(kvCells, hash, CellMerge(reqs[c].local[hash], reqs[c].delta[hash]))
    /\ LET todo1 == MapPut(reqs[c].todo, hash, "done")
       IN reqs' = [ reqs EXCEPT ![c] =
            IF \A h \in DOMAIN todo1 : todo1[h] \in { "done", "failed" }
            THEN [ @ EXCEPT !.todo = todo1, !.pc = "done",
                            !.resp = IF @ # None THEN @
                                     ELSE Some([ status |-> 200,
                                                 processed |-> Len(reqs[c].batch) ]) ]
            ELSE [ @ EXCEPT !.todo = todo1 ] ]
    /\ UNCHANGED << deployed, kvCoverage, now, pure, admin, reader >>

\* the gets and puts of one request's cells take effect in any order
CellGetSome(c) == \E hash \in DOMAIN reqs[c].todo : CellGet(c, hash)
CellPutSome(c) == \E hash \in DOMAIN reqs[c].todo : CellPut(c, hash)

----------------------------------------------------------------------------
(* Storage operations that throw: the catch block answers with status 500 *)

\* storage faults in one behaviour
MaxFaults == 1

FaultAllowed == Cardinality({ c \in Clients : reqs[c].fault }) < MaxFaults

\* single-document draft: the get of 'coverage' throws
DocPostGetFail(c, batch) ==
    /\ deployed = "doc"
    /\ reqs[c].pc = "idle"
    /\ Len(batch) > 0
    /\ FaultAllowed
    /\ reqs' = [ reqs EXCEPT ![c] =
          [ @ EXCEPT !.pc = "done", !.batch = batch, !.after = DoneClients,
                     !.fault = TRUE, !.resp = Some([ status |-> 500 ]) ] ]
    /\ UNCHANGED << deployed, kvCoverage, kvCells, now, pure, admin, reader >>

\* single-document draft: the put of 'coverage' throws
DocPostPutFail(c) ==
    /\ deployed = "doc"
    /\ reqs[c].pc = "put"
    /\ FaultAllowed
    /\ reqs' = [ reqs EXCEPT ![c] =
          [ @ EXCEPT !.pc = "done", !.fault = TRUE,
                     !.delta = aggregateSamples(BatchUnique(reqs[c].batch), now),
                     !.resp = Some([ status |-> 500 ]) ] ]
    /\ UNCHANGED << deployed, kvCoverage, kvCells, now, pure, admin, reader >>

\* key-per-cell draft: the get or the put of 'cell:<hash>' throws; Promise.all
\* rejects and the catch block answers, while the operations already issued
\* for the other cells may still take effect
CellOpFail(c, hash) ==
    /\ deployed = "cell"
    /\ reqs[c].pc = "merge"
    /\ hash \in DOMAIN reqs[c].todo
    /\ reqs[c].todo[hash] \in { "get", "put" }
    /\ FaultAllowed
    /\ LET todo1 == MapPut(reqs[c].todo, hash, "failed")
       IN reqs' = [ reqs EXCEPT ![c] =
            [ @ EXCEPT !.todo = todo1, !.fault = TRUE,
                       !.pc = IF \A h \in DOMAIN todo1 : todo1[h] \in { "done", "failed" }
                              THEN "done" ELSE "merge",
                       !.resp = IF @ # None THEN @ ELSE Some([ status |-> 500 ]) ] ]
    /\ UNCHANGED << deployed, kvCoverage, kvCells, now, pure, admin, reader >>

CellOpFailSome(c) == \E hash \in DOMAIN reqs[c].todo : CellOpFail(c, hash)

----------------------------------------------------------------------------
(* onRequestDelete, the same in both drafts *)

\* context.env.ADMIN_TOKEN, configured
AdminToken == "s3cret"

\* values of the Authorization header; None when the header is missing
AuthHeaders ==
    { None, Some(""), Some("Bearer " \o AdminToken), Some("Bearer " \o "guess"),
      Some(AdminToken), Some("Bearer " \o AdminToken \o "x") }

\* a check that accepts any header that is present
AuthorizedAnyHeader(authHeader) == StrTruthy(authHeader)

\* ${adminToken} in the template literal: the text of an unset variable
\* is 'undefined'
TokenText(adminToken) == IF adminToken = None THEN "undefined" ELSE adminToken[1]

\* the request passes the token check; admin.token is context.env.ADMIN_TOKEN
Authorized(authHeader) ==
    ~(~StrTruthy(authHeader) \/ authHeader[1] # "Bearer " \o TokenText(admin.token))

IdleAdmin ==
    [ pc |-> "idle", header |-> None, resp |-> None, issued |-> FALSE,
      after |-> {}, quiet |-> FALSE, token |-> Some(AdminToken) ]

\* no ingest request is in progress
NoIngestRunning == \A c \in Clients : reqs[c].pc \in { "idle", "done" }

\* the DELETE request is checked and, if authorized, its delete of the key
\* 'coverage' takes effect; issued records that a storage operation was made
Delete(authHeader) ==
    /\ admin.pc = "idle"
    /\ IF Authorized(authHeader)
       THEN /\ kvCoverage' = None
            /\ admin' = [ pc |-> "done", header |-> authHeader, issued |-> TRUE,
                          resp |-> Some([ status |-> 200, success |-> TRUE ]),
                          after |-> DoneClients, quiet |-> NoIngestRunning,
                          token |-> admin.token ]
       ELSE /\ kvCoverage' = kvCoverage
            /\ admin' = [ pc |-> "done", header |-> authHeader, issued |-> FALSE,
                          resp |-> Some([ status |-> 401 ]),
                          after |-> DoneClients, quiet |-> NoIngestRunning,
                          token |-> admin.token ]
    /\ UNCHANGED << deployed, kvCells, now, reqs, pure, reader >>

----------------------------------------------------------------------------
(* onRequestGet *)

IdleReader ==
    [ pc |-> "idle", keys |-> {}, coverage |-> <<>>, resp |-> None,
      after |-> {}, quiet |-> FALSE, cleared |-> FALSE ]

\* the reader as its request arrives: what had completed by then
ArrivedReader ==
    [ IdleReader EXCEPT !.after = DoneClients, !.quiet = NoIngestRunning,
                        !.cleared = (admin.pc = "done" /\ admin.issued) ]

\* single-document draft: one get of 'coverage'; the document or {} is returned
DocGet ==
    /\ deployed = "doc"
    /\ reader.pc = "idle"
    /\ reader' = [ ArrivedReader EXCEPT
                     !.pc = "done", !.coverage = ExistingCoverage,
                     !.resp = Some([ status |-> 200, coverage |-> ExistingCoverage ]) ]
    /\ UNCHANGED << deployed, kvCoverage, kvCells, now, reqs, pure, admin >>

\* a list that returns only the first key
ListedKeysFirst(cells) ==
    IF DOMAIN cells = {} THEN {}
    ELSE { CHOOSE k \in DOMAIN cells : TRUE }

\* the names returned by list({ prefix: 'cell:' }), without the prefix
ListedKeys(cells) == DOMAIN cells

\* key-per-cell draft: the list takes effect and one get per key is issued
CellList ==
    /\ deployed = "cell"
    /\ reader.pc = "idle"
    /\ LET keys == ListedKeys(kvCells)
       IN reader' =
            IF keys = {}
            THEN [ ArrivedReader EXCEPT
                     !.pc = "done", !.resp = Some([ status |-> 200, coverage |-> <<>> ]) ]
            ELSE [ ArrivedReader EXCEPT !.pc = "fetch", !.keys = keys ]
    /\ UNCHANGED << deployed, kvCoverage, kvCells, now, reqs, pure, admin >>

\* the get of one listed key takes effect; after the last one the response is sent
CellFetch(hash) ==
    /\ deployed = "cell"
    /\ reader.pc = "fetch"
    /\ hash \in reader.keys
    /\ LET coverage == MapPut(reader.coverage, hash, kvCells[hash])
           keys == reader.keys \ { hash }
       IN reader' =
            IF keys = {}
            THEN [ reader EXCEPT !.pc = "done", !.keys = keys, !.coverage = coverage,
                                 !.resp = Some([ status |-> 200, coverage |-> coverage ]) ]
            ELSE [ reader EXCEPT !.keys = keys, !.coverage = coverage ]
    /\ UNCHANGED << deployed, kvCoverage, kvCells, now, reqs, pure, admin >>

CellFetchSome == \E hash \in reader.keys : CellFetch(hash)

----------------------------------------------------------------------------
(* The clock *)

Tick ==
    /\ now < NowStart + MaxJumps * TickDays * TicksPerDay
    /\ now' = now + TickDays * TicksPerDay
    /\ UNCHANGED << deployed, kvCoverage, kvCells, reqs, pure, admin, reader >>

----------------------------------------------------------------------------
(* The store model *)

Init ==
    /\ deployed \in { "doc", "cell" }
    /\ kvCoverage = None
    /\ kvCells = <<>>
    /\ now = NowStart
    /\ reqs = [ c \in Clients |-> IdleReq ]
    /\ pure = IdlePure
    /\ admin = IdleAdmin
    /\ reader = IdleReader

Next ==
    \/ \E c \in Clients, batch \in Batches : DocPostGet(c, batch)
    \/ \E c \in Clients : DocPostPut(c)
    \/ \E c \in Clients, batch \in Batches : CellPostStart(c, batch)
    \/ \E c \in Clients : CellGetSome(c)
    \/ \E c \in Clients : CellPutSome(c)
    \/ Tick

Spec == Init /\ [][Next]_vars

----------------------------------------------------------------------------
(* The store with its read and clear-all operations *)

\* the probe of StoreProbes with a given id
ProbeOf(id) == CHOOSE s \in StoreProbes : s.id = Some(id)

\* the batches of this specification: probes of two cells, alone and together
OpsBatches ==
    { <<>>, << ProbeOf("a") >>, << ProbeOf("d") >>, << ProbeOf("a"), ProbeOf("d") >> }

NextOps ==
    \/ \E c \in Clients, batch \in OpsBatches : DocPostGet(c, batch)
    \/ \E c \in Clients : DocPostPut(c)
    \/ \E c \in Clients, batch \in OpsBatches : CellPostStart(c, batch)
    \/ \E c \in Clients : CellGetSome(c)
    \/ \E c \in Clients : CellPutSome(c)
    \/ \E authHeader \in AuthHeaders : Delete(authHeader)
    \/ DocGet
    \/ CellList
    \/ CellFetchSome

SpecOps == Init /\ [][NextOps]_vars

----------------------------------------------------------------------------
(* The store in an environment where ADMIN_TOKEN is not set *)

\* header values tried against the unset token
EnvAuthHeaders ==
    AuthHeaders \cup { Some("Bearer " \o "undefined"), Some("Bearer "), Some("undefined") }

InitEnv ==
    /\ deployed \in { "doc", "cell" }
    /\ kvCoverage = None
    /\ kvCells = <<>>
    /\ now = NowStart
    /\ reqs = [ c \in Clients |-> IdleReq ]
    /\ pure = IdlePure
    /\ admin = [ IdleAdmin EXCEPT !.token = None ]
    /\ reader = IdleReader

NextEnv ==
    \/ \E c \in Clients, batch \in OpsBatches : DocPostGet(c, batch)
    \/ \E c \in Clients : DocPostPut(c)
    \/ \E c \in Clients, batch \in OpsBatches : CellPostStart(c, batch)
    \/ \E c \in Clients : CellGetSome(c)
    \/ \E c \in Clients : CellPutSome(c)
    \/ \E authHeader \in EnvAuthHeaders : Delete(authHeader)

SpecEnv == InitEnv /\ [][NextEnv]_vars

----------------------------------------------------------------------------
(* The store with storage operations that may throw, and the clock *)

\* the batches of this specification: one or two cells, successes and
\* failures, in and out of time order, with and without coordinates
FaultBatches ==
    { <<>>, << ProbeOf("a") >>, << ProbeOf("b") >>, << ProbeOf("c") >>,
      << ProbeOf("d") >>, << ProbeOf("e") >>,
      << ProbeOf("a"), ProbeOf("d") >>, << ProbeOf("c"), ProbeOf("a") >>,
      << ProbeOf("e"), ProbeOf("a") >>, << ProbeOf("a"), ProbeOf("e") >>,
      << ProbeOf("d"), ProbeOf("e") >> }

NextFaults ==
    \/ \E c \in Clients, batch \in FaultBatches : DocPostGet(c, batch)
    \/ \E c \in Clients : DocPostPut(c)
    \/ \E c \in Clients, batch \in FaultBatches : CellPostStart(c, batch)
    \/ \E c \in Clients : CellGetSome(c)
    \/ \E c \in Clients : CellPutSome(c)
    \/ \E c \in Clients, batch \in FaultBatches : DocPostGetFail(c, batch)
    \/ \E c \in Clients : DocPostPutFail(c)
    \/ \E c \in Clients : CellOpFailSome(c)
    \/ Tick

SpecFaults == Init /\ [][NextFaults]_vars


----------------------------------------------------------------------------
(* The pure helpers, applied to inputs drawn from bounded sets *)

MaxTick == MaxDay * TicksPerDay

DecayCall(lastUpdate, nowTs, calls) ==
    [ fn |-> "applyDecay", calls |-> calls,
      in |-> [ cell |-> [ received |-> 3, lost |-> 1, lastUpdate |-> lastUpdate ],
               now |-> nowTs ],
      out |-> [ age |-> ageInDays(lastUpdate, nowTs),
                decayFactor |-> decayFactor(ageInDays(lastUpdate, nowTs)),
                cell |-> applyDecay([ received |-> 3, lost |-> 1,
                                      lastUpdate |-> lastUpdate ], nowTs) ] ]

\* applyDecay is called on a cell, at some time
CallApplyDecay(lastUpdate, nowTs) ==
    /\ pure.fn = "none"
    /\ pure' = DecayCall(lastUpdate, nowTs, 1)
    /\ UNCHANGED << deployed, kvCoverage, kvCells, now, reqs, admin, reader >>

\* applyDecay is called again on the same cell, later
CallApplyDecayLater(nowTs) ==
    /\ pure.fn = "applyDecay"
    /\ nowTs > pure.in.now
    /\ pure' = DecayCall(pure.in.cell.lastUpdate, nowTs, 2)
    /\ UNCHANGED << deployed, kvCoverage, kvCells, now, reqs, admin, reader >>

\* the tier of a pair of totals is computed
CallClassify(received, lost) ==
    /\ pure.fn = "none"
    /\ pure' = [ fn |-> "classify", calls |-> 1, in |-> << received, lost >>,
                 out |-> classify(received, lost) ]
    /\ UNCHANGED << deployed, kvCoverage, kvCells, now, reqs, admin, reader >>

\* coordinates and precisions tried in the checks of encodeGeohash
MaxPrecision == 3
GeoLats == { -LatMax, -1, 0, 1, PlaceA[1], LatMax }
GeoLons == { -LonMax, 0, PlaceB[2], PlaceA[2], LonMax \div 2, LonMax }

GeohashCall(lat, lon, precision, calls) ==
    [ fn |-> "encodeGeohash", calls |-> calls,
      in |-> [ lat |-> lat, lon |-> lon, precision |-> precision ],
      out |-> GeohashRun(lat, lon, precision) ]

\* encodeGeohash is called on a point, with a precision
CallEncodeGeohash(lat, lon, precision) ==
    /\ pure.fn = "none"
    /\ pure' = GeohashCall(lat, lon, precision, 1)
    /\ UNCHANGED << deployed, kvCoverage, kvCells, now, reqs, admin, reader >>

\* encodeGeohash is called again with the same arguments
CallEncodeGeohashAgain ==
    /\ pure.fn = "encodeGeohash"
    /\ pure.calls = 1
    /\ pure' = GeohashCall(pure.in.lat, pure.in.lon, pure.in.precision, 2)
    /\ UNCHANGED << deployed, kvCoverage, kvCells, now, reqs, admin, reader >>

\* the delta a draft of onRequestPost computes from a batch
DeltaOf(draft, samples, nowTs) ==
    IF draft = "doc" THEN aggregateSamples(BatchUnique(samples), nowTs)
    ELSE BatchSummary(samples)

\* the delta the deployed draft computes from a batch
DeltaOfBatch(samples) == DeltaOf(deployed, samples, now)

\* probes for the fold of a batch: the ones of the store, plus a probe with
\* neither a success flag nor a source (n), a failed ping that names a source
\* (f), the source 'Unknown' (u), latitude 0 (z1), longitude 0 (z2), and
\* latitude 0 with a lat to fall back on (z3)
FoldProbes ==
    StoreProbes \cup
    { Probe(Some("n"), Some(PlaceA[1]), Some(PlaceA[2]), None, None,
            Some(T3), None, None, None),
      Probe(Some("f"), Some(PlaceA[1]), Some(PlaceA[2]), None, None,
            Some(T1), Some("n1"), Some(FALSE), Some(-80)),
      Probe(Some("u"), Some(PlaceA[1]), Some(PlaceA[2]), None, None,
            Some(T2), Some("Unknown"), None, None),
      Probe(Some("z1"), Some(0), Some(PlaceA[2]), None, None,
            Some(T3), Some("n1"), Some(TRUE), Some(-60)),
      Probe(Some("z2"), None, None, Some(PlaceA[1]), Some(0),
            Some(T3), Some("n1"), Some(TRUE), Some(-60)),
      Probe(Some("z3"), Some(0), Some(PlaceA[2]), Some(PlaceA[1]), None,
            Some(T1), None, Some(TRUE), None) }

FoldBatches == SeqsUpTo(FoldProbes, MaxBatch)

\* a draft's grouping of a batch is run, apart from the store
CallFold(draft, batch) ==
    /\ pure.fn = "none"
    /\ pure' = [ fn |-> "fold", calls |-> 1,
                 in |-> [ draft |-> draft, batch |-> batch, now |-> now ],
                 out |-> DeltaOf(draft, batch, now) ]
    /\ UNCHANGED << deployed, kvCoverage, kvCells, now, reqs, admin, reader >>

\* the cap of the seen-id list
SeenCap == 150

\* the seen-list draft of onRequestPost (COVERAGE_LOGIC.md): the grouping
\* keeps the ids of each bucket, each id counted once
SeenSummarySample(batchSummary, s) ==
    IF ~HasCoords(s) THEN batchSummary
    ELSE
      LET hash == HashOf(s)
          sid == computeSampleId(s)
          e0 == IF hash \in DOMAIN batchSummary THEN batchSummary[hash]
                ELSE [ received |-> 0, lost |-> 0, lastUpdate |-> s.timestamp,
                       repeaters |-> <<>>, ids |-> <<>> ]
          e1 == [ e0 EXCEPT !.ids = Append(@, sid) ]
          e2 == IF IsSuccess(s) THEN [ e1 EXCEPT !.received = @ + 1 ]
                ELSE [ e1 EXCEPT !.lost = @ + 1 ]
          e3 == IF ValidNode(s)
                THEN [ e2 EXCEPT !.repeaters = MapPut(@, s.nodeId[1], SummaryRepeater(s)) ]
                ELSE e2
      IN IF \E i \in 1..Len(e0.ids) : e0.ids[i] = sid
         THEN MapPut(batchSummary, hash, e0)
         ELSE MapPut(batchSummary, hash, e3)

RECURSIVE SeenSummaryLoop(_, _, _)
SeenSummaryLoop(incoming, i, batchSummary) ==
    IF i > Len(incoming) THEN batchSummary
    ELSE SeenSummaryLoop(incoming, i + 1, SeenSummarySample(batchSummary, incoming[i]))

SeenSummary(incoming) == SeenSummaryLoop(incoming, 1, <<>>)

\* get(key) || { received: 0, lost: 0, repeaters: {}, seenIds: [] }
SeenDefault ==
    [ received |-> 0, lost |-> 0, repeaters |-> <<>>, seenIds |-> <<>>,
      lastUpdate |-> None ]

\* Math.round(count * (new / all)), for all > 0
RoundRatio(count, new, all) == (2 * count * new + all) \div (2 * all)

\* the cell after "Atomic Merge into KV"; unchanged when no id is new
SeenMerge(existing, newData) ==
    LET IsNew(id) == \A i \in 1..Len(existing.seenIds) : existing.seenIds[i] # id
        actuallyNewIds == SelectSeq(newData.ids, IsNew)
        joined == actuallyNewIds \o existing.seenIds
    IN IF Len(actuallyNewIds) = 0 THEN existing
       ELSE [ received |-> existing.received
                  + RoundRatio(newData.received, Len(actuallyNewIds), Len(newData.ids)),
              lost |-> existing.lost
                  + RoundRatio(newData.lost, Len(actuallyNewIds), Len(newData.ids)),
              repeaters |-> MapSpread(existing.repeaters, newData.repeaters),
              lastUpdate |->
                  IF newData.lastUpdate # None
                     /\ (existing.lastUpdate = None
                           \/ newData.lastUpdate[1] > existing.lastUpdate[1])
                  THEN newData.lastUpdate ELSE existing.lastUpdate,
              seenIds |-> SubSeq(joined, 1, IF Len(joined) < SeenCap THEN Len(joined)
                                            ELSE SeenCap) ]

\* the batches merged into one cell: successes a and b, failure c
SeenBatches ==
    SeqsUpTo({ ProbeOf("a"), ProbeOf("b"), ProbeOf("c") }, MaxBatch) \ { <<>> }

\* a batch is merged into the cell that an earlier batch left
CallSeenMerge(earlier, batch) ==
    /\ pure.fn = "none"
    /\ LET hash == GeohashOfPlace[PlaceA]
           before == SeenMerge(SeenDefault, SeenSummary(earlier)[hash])
       IN pure' = [ fn |-> "seenMerge", calls |-> 2,
                    in |-> [ earlier |-> earlier, batch |-> batch, cell |-> before ],
                    out |-> SeenMerge(before, SeenSummary(batch)[hash]) ]
    /\ UNCHANGED << deployed, kvCoverage, kvCells, now, reqs, admin, reader >>

\* latitudes of the probes whose ids are computed: two that round to the
\* same millionth, the next one up, and one on each side of 0
IdLats == { PlaceA[1], PlaceA[1] + 8, PlaceA[1] + 9, -4, 4 }

\* timestamp, source and success flag of the probes whose ids are computed
IdTraits ==
    { << Some(T2), Some("n1"), Some(TRUE) >>, << Some(T2), Some("n1"), None >>,
      << None, Some("n1"), Some(TRUE) >>, << Some(T2), None, Some(TRUE) >> }

\* probes without id: the latitude in either field
IdProbesHashed ==
    { Probe(None, IF field = "latitude" THEN Some(v) ELSE None, Some(PlaceA[2]),
            IF field = "lat" THEN Some(v) ELSE None, None,
            traits[1], traits[2], traits[3],
            IF traits[3] = None THEN None ELSE Some(-70)) :
        v \in IdLats, field \in { "latitude", "lat" }, traits \in IdTraits }

\* probes that carry an id
IdProbesNamed ==
    { Probe(Some(id), Some(PlaceA[1]), Some(PlaceA[2]), None, None,
            Some(T2), Some("n1"), Some(TRUE), None) : id \in { "a", "b" } }

IdProbes == IdProbesHashed \cup IdProbesNamed

\* computeSampleId is called on two samples (of any batch and request)
CallComputeSampleId(s, t) ==
    /\ pure.fn = "none"
    /\ pure' = [ fn |-> "computeSampleId", calls |-> 2, in |-> << s, t >>,
                 out |-> << computeSampleId(s), computeSampleId(t) >> ]
    /\ UNCHANGED << deployed, kvCoverage, kvCells, now, reqs, admin, reader >>

InitPure ==
    /\ deployed = "cell"
    /\ kvCoverage = None
    /\ kvCells = <<>>
    /\ now = NowStart
    /\ reqs = [ c \in Clients |-> IdleReq ]
    /\ pure = IdlePure
    /\ admin = IdleAdmin
    /\ reader = IdleReader

NextPure ==
    \/ \E lastUpdate \in 0..MaxLastUpdate, nowTs \in 0..MaxTick :
          CallApplyDecay(lastUpdate, nowTs)
    \/ \E nowTs \in 0..MaxTick : CallApplyDecayLater(nowTs)
    \/ \E received \in 0..MaxTotal, lost \in 0..MaxTotal : CallClassify(received, lost)
    \/ \E lat \in GeoLats, lon \in GeoLons, precision \in 1..MaxPrecision :
          CallEncodeGeohash(lat, lon, precision)
    \/ CallEncodeGeohashAgain
    \/ \E s \in IdProbes, t \in IdProbes : CallComputeSampleId(s, t)
    \/ \E draft \in { "doc", "cell" }, batch \in FoldBatches : CallFold(draft, batch)
    \/ \E earlier \in SeenBatches, batch \in SeenBatches : CallSeenMerge(earlier, batch)

SpecPure == InitPure /\ [][NextPure]_vars


----------------------------------------------------------------------------
(* What the claims speak of *)

\* the persisted cells, by bucket, of the deployed draft
Persisted == IF deployed = "doc" THEN ExistingCoverage ELSE kvCells

\* no request is in flight
Quiet == \A c \in Clients : reqs[c].pc \in { "idle", "done" }

\* c1 had completed when c2 arrived
Before(c1, c2) == Done(c1) /\ Done(c2) /\ c1 \in reqs[c2].after

\* the requests were processed one after the other
Serial == \A c1, c2 \in Clients : (c1 # c2 /\ Done(c1) /\ Done(c2)) =>
                                     (Before(c1, c2) \/ Before(c2, c1))

\* both requests completed and they overlapped in time
Overlapped == /\ \A c \in Clients : Done(c)
              /\ \A c1, c2 \in Clients : c1 # c2 => ~Before(c1, c2)

\* the submitted probes, as <<client, index in its batch>>
Submitted == UNION { { << c, i >> : i \in 1..Len(reqs[c].batch) } : c \in Clients }
ProbeAt(x) == reqs[x[1]].batch[x[2]]

PairwiseDistinct ==
    \A x, y \in Submitted :
        x # y => computeSampleId(ProbeAt(x)) # computeSampleId(ProbeAt(y))

InBucket(hash) ==
    { x \in Submitted : HasCoords(ProbeAt(x)) /\ HashOf(ProbeAt(x)) = hash }
TouchedBuckets == { HashOf(ProbeAt(x)) : x \in { y \in Submitted : HasCoords(ProbeAt(y)) } }

Successes(hash) == Cardinality({ x \in InBucket(hash) : IsSuccess(ProbeAt(x)) })
Failures(hash) == Cardinality({ x \in InBucket(hash) : ~IsSuccess(ProbeAt(x)) })

NoDecayDue == \A c \in Clients : ~reqs[c].aged

HoldsTotals(hash) ==
    /\ hash \in DOMAIN Persisted
    /\ Persisted[hash].received = Successes(hash)
    /\ Persisted[hash].lost = Failures(hash)

\* C1: requests processed one after the other, with pairwise distinct probes
\* that all land in one bucket while no decay is due, leave the cell with
\* received = all successful probes and lost = all failed probes.
C1_SequentialTotals ==
    (Quiet /\ Serial /\ PairwiseDistinct /\ NoDecayDue
       /\ Cardinality(TouchedBuckets) = 1)
    => \A hash \in TouchedBuckets : HoldsTotals(hash)

\* the counts a request's own batch summed to, for a bucket
DeltaReceived(c, hash) ==
    IF hash \in DOMAIN reqs[c].delta THEN reqs[c].delta[hash].received ELSE 0
DeltaLost(c, hash) ==
    IF hash \in DOMAIN reqs[c].delta THEN reqs[c].delta[hash].lost ELSE 0

\* C2: processing the same batch twice in a row leaves every cell's received
\* and lost as they were after the first processing.
C2_Idempotent ==
    \A c1, c2 \in Clients :
        (Before(c1, c2) /\ reqs[c1].batch = reqs[c2].batch)
        => \A hash \in DOMAIN Persisted :
              /\ Persisted[hash].received = DeltaReceived(c1, hash)
              /\ Persisted[hash].lost = DeltaLost(c1, hash)

\* the ids a request's batch carried into a bucket
IdsOf(c, hash) ==
    { computeSampleId(ProbeAt(x)) : x \in { y \in InBucket(hash) : y[1] = c } }

\* the probes of c2's batch for the bucket that c1's batch did not carry
NewOf(c1, c2, hash) ==
    { x \in InBucket(hash) :
        x[1] = c2 /\ computeSampleId(ProbeAt(x)) \notin IdsOf(c1, hash) }

\* C3: a probe counted by an earlier request adds nothing to received or lost
\* when it reappears in a later one: the later request raises the cell's
\* totals by no more than its new probes.
C3_ResubmittedAddsNothing ==
    \A c1, c2 \in Clients : \A hash \in DOMAIN Persisted :
        (Before(c1, c2) /\ IdsOf(c1, hash) \cap IdsOf(c2, hash) # {})
        => /\ Persisted[hash].received <= DeltaReceived(c1, hash)
                + Cardinality({ x \in NewOf(c1, c2, hash) : IsSuccess(ProbeAt(x)) })
           /\ Persisted[hash].lost <= DeltaLost(c1, hash)
                + Cardinality({ x \in NewOf(c1, c2, hash) : ~IsSuccess(ProbeAt(x)) })

\* C4: two requests that run concurrently with distinct probes for one bucket
\* leave, in every interleaving of their gets and puts, a cell that holds both
\* contributions.
C4_NoLostUpdate ==
    (Overlapped /\ PairwiseDistinct /\ Cardinality(TouchedBuckets) = 1
       /\ \A c \in Clients : DOMAIN reqs[c].delta # {})
    => \A hash \in TouchedBuckets : HoldsTotals(hash)

\* C5: two concurrent requests that touch disjoint sets of buckets leave, in
\* every interleaving, the cells of both persisted with their full counts.
C5_DisjointBucketsIndependent ==
    ( /\ \A c \in Clients : Done(c)
      /\ \A c1, c2 \in Clients :
            c1 # c2 => (DOMAIN reqs[c1].delta) \cap (DOMAIN reqs[c2].delta) = {} )
    => \A c \in Clients : \A hash \in DOMAIN reqs[c].delta :
          /\ hash \in DOMAIN Persisted
          /\ Persisted[hash].received = reqs[c].delta[hash].received
          /\ Persisted[hash].lost = reqs[c].delta[hash].lost

\* lastSeen of a stored repeater entry, as a number
LastSeenOf(entry) ==
    IF deployed = "doc" THEN entry.lastSeen ELSE entry.lastSeen[1]

\* the put of c's merge takes effect in this step, for the single document
\* and for one cell key, on the state the merge had read
DocMergeStep(c) ==
    /\ deployed = "doc"
    /\ reqs[c].pc = "put" /\ reqs'[c].pc = "done"
    /\ reqs[c].local = ExistingCoverage
CellMergeStep(c, hash) ==
    /\ deployed = "cell"
    /\ hash \in DOMAIN reqs[c].todo
    /\ reqs[c].todo[hash] = "put" /\ reqs'[c].todo[hash] = "done"
    /\ reqs[c].local[hash] = (IF hash \in DOMAIN kvCells THEN kvCells[hash] ELSE CellDefault)

\* a merge takes effect in this step, on the state it had read
SomeMergeStep ==
    \E c \in Clients :
        DocMergeStep(c) \/ \E hash \in DOMAIN reqs[c].todo : CellMergeStep(c, hash)

\* C6: over any sequence of requests the stored entry of a source in a cell
\* changes only to one whose lastSeen is strictly later; an older probe never
\* lowers lastSeen nor changes the stored signal strength.
C6_NewerSourceWins ==
    [][ SomeMergeStep =>
        \A hash \in (DOMAIN Persisted) \cap (DOMAIN Persisted') :
          \A node \in (DOMAIN Persisted[hash].repeaters)
                        \cap (DOMAIN Persisted'[hash].repeaters) :
             Persisted'[hash].repeaters[node] # Persisted[hash].repeaters[node]
             => LastSeenOf(Persisted'[hash].repeaters[node])
                  > LastSeenOf(Persisted[hash].repeaters[node]) ]_vars

\* the tier the claim gives for totals with received + lost > 0
TierOfRate(received, total) ==
    CASE 10 * received >= 8 * total -> "VeryReliable"
      [] 10 * received >= 5 * total /\ 10 * received < 8 * total -> "UsuallyWorks"
      [] 10 * received >= 3 * total /\ 10 * received < 5 * total -> "Spotty"
      [] 10 * received >= 1 * total /\ 10 * received < 3 * total -> "RarelyWorks"
      [] 10 * received < 1 * total -> "DeadZone"

ClassifyExamples ==
    ( << 8, 2 >> :> "VeryReliable" @@ << 79, 21 >> :> "UsuallyWorks" @@
      << 18, 1 >> :> "VeryReliable" @@ << 5, 3 >> :> "UsuallyWorks" @@
      << 1, 19 >> :> "DeadZone" )

\* C7: classify gives NoData exactly when received + lost = 0 and otherwise
\* the one tier whose interval holds the rate received / (received + lost),
\* lower bounds inclusive; (8,2), (18,1) are VeryReliable, (79,21), (5,3)
\* UsuallyWorks and (1,19) DeadZone.
C7_ClassifyTiers ==
    pure.fn = "classify" =>
        LET received == pure.in[1]
            lost == pure.in[2]
        IN /\ (pure.out = "NoData") <=> (received + lost = 0)
           /\ received + lost > 0 => pure.out = TierOfRate(received, received + lost)
           /\ pure.in \in DOMAIN ClassifyExamples => pure.out = ClassifyExamples[pure.in]

C7_Witness ==
    /\ pure.fn = "classify"
    /\ pure.in = << 79, 21 >>
    /\ pure.out = "UsuallyWorks"

\* the factor, in percent, the claim gives for an age in whole days
FactorOfAge(age) ==
    CASE age <= 7 -> 100
      [] 7 < age /\ age <= 14 -> 85
      [] 14 < age /\ age <= 30 -> 70
      [] 30 < age /\ age <= 90 -> 50
      [] age > 90 -> 20

\* age is the number of whole days from lastUpdate to now, rounded down
IsWholeDays(age, lastUpdate, nowTs) ==
    /\ age * TicksPerDay <= nowTs - lastUpdate
    /\ nowTs - lastUpdate < (age + 1) * TicksPerDay

C9_DecayMonotone ==
    [][ /\ ( /\ pure.fn = "applyDecay" /\ pure'.fn = "applyDecay"
             /\ pure'.in.cell.lastUpdate = pure.in.cell.lastUpdate
             /\ pure'.in.now >= pure.in.now )
           => pure'.out.decayFactor <= pure.out.decayFactor
        /\ (pure'.fn = "applyDecay" /\ pure'.in.now = pure'.in.cell.lastUpdate)
           => pure'.out.decayFactor = 100 ]_vars

C9_Witness ==
    /\ pure.fn = "applyDecay"
    /\ pure.calls = 2
    /\ pure.out.decayFactor = 50

\* the persisted totals scaled once by the factor of the cell's own age, plus
\* the delta at full weight, in hundredths
DecayedSum(oldCount, oldLastUpdate, deltaCount) ==
    decayFactor(ageInDays(oldLastUpdate, now)) * oldCount + 100 * deltaCount

MergedWithDecay(hash, delta) ==
    IF hash \in DOMAIN Persisted
    THEN LET old == Persisted[hash]
             lastUpdate == IF deployed = "doc" THEN old.lastUpdate ELSE old.lastUpdate[1]
         IN /\ 100 * Persisted'[hash].received
                 = DecayedSum(old.received, lastUpdate, delta.received)
            /\ 100 * Persisted'[hash].lost
                 = DecayedSum(old.lost, lastUpdate, delta.lost)
    ELSE /\ Persisted'[hash].received = delta.received
         /\ Persisted'[hash].lost = delta.lost

\* C10: one merge of a delta into an existing cell applies decay once, with
\* the factor of the persisted cell's own lastUpdate, to the persisted totals
\* only: received = factor * persisted.received + delta.received, and the
\* same for lost; a new cell is stored undecayed.
C10_DecayOncePerMerge ==
    [][ \A c \in Clients :
          /\ (DocMergeStep(c) /\ PairwiseDistinct)
             => \A hash \in DOMAIN reqs'[c].delta :
                   MergedWithDecay(hash, reqs'[c].delta[hash])
          /\ \A hash \in DOMAIN reqs[c].todo :
                (CellMergeStep(c, hash) /\ PairwiseDistinct)
                => MergedWithDecay(hash, reqs[c].delta[hash]) ]_vars

----------------------------------------------------------------------------
(* Claims about encodeGeohash *)

Alphabet == { base32[i] : i \in 1..Len(base32) }

\* the 5-bit value a symbol stands for
ValueOf(symbol) == (CHOOSE i \in 1..Len(base32) : base32[i] = symbol) - 1

\* C14: for every point in range and every precision p >= 1 encodeGeohash
\* makes exactly 5 * p bisections and returns p symbols of the base-32
\* alphabet; a second call with the same arguments returns the same string.
C14_GeohashLength ==
    [][ pure'.fn = "encodeGeohash" =>
          /\ pure'.out.steps = 5 * pure'.in.precision
          /\ Len(pure'.out.geohash) = pure'.in.precision
          /\ \A i \in 1..Len(pure'.out.geohash) : pure'.out.geohash[i] \in Alphabet
          /\ (pure.fn = "encodeGeohash" /\ pure'.in = pure.in)
                => pure'.out.geohash = pure.out.geohash ]_vars

C14_Witness ==
    /\ pure.fn = "encodeGeohash"
    /\ pure.calls = 2
    /\ pure.in.precision = MaxPrecision
    /\ pure.out.steps = 5 * MaxPrecision

\* C15: a point exactly on a bisection midpoint goes to the upper half, on
\* both axes alike: longitude 0 sets the first bit of the first symbol
\* (first longitude bisection) and latitude 0 sets its second bit (first
\* latitude bisection).
C15_MidpointUpperHalf ==
    pure.fn = "encodeGeohash" =>
        LET first == ValueOf(pure.out.geohash[1])
        IN /\ pure.in.lon = 0 => first \div 16 = 1
           /\ pure.in.lat = 0 => (first \div 8) % 2 = 1

\* C15 as amended: a point exactly on a bisection midpoint goes to the lower
\* half (the branch taken when the coordinate is not greater than the
\* midpoint), on both axes alike: longitude 0 and latitude 0 clear the first
\* and second bit of the first symbol, and a longitude on the midpoint of the
\* upper half sets the first longitude bit and clears the second.
C15_MidpointLowerHalf ==
    pure.fn = "encodeGeohash" =>
        LET first == ValueOf(pure.out.geohash[1])
        IN /\ pure.in.lon = 0 => first \div 16 = 0
           /\ pure.in.lat = 0 => (first \div 8) % 2 = 0
           /\ pure.in.lon = LonMax \div 2 => (first \div 16 = 1 /\ (first \div 4) % 2 = 0)

C15_Witness ==
    /\ pure.fn = "encodeGeohash"
    /\ pure.in = [ lat |-> 0, lon |-> 0, precision |-> 2 ]
    /\ pure.out.geohash = << "7", "z" >>

----------------------------------------------------------------------------
(* Claims about clear-all and read *)

\* every ingest request that ever arrived had completed when DELETE was handled
IngestOnlyBeforeDelete ==
    /\ admin.quiet
    /\ \A c \in Clients : reqs[c].pc # "idle" => c \in admin.after

\* C11: after an authorized DELETE has completed, with no ingest request
\* running concurrently or later, a following GET returns an empty coverage
\* map: no cell written by an earlier ingest request is still readable.
C11_ClearAllRemovesEveryCell ==
    (reader.pc = "done" /\ reader.cleared /\ IngestOnlyBeforeDelete)
        => reader.resp = Some([ status |-> 200, coverage |-> <<>> ])

\* C12: a DELETE whose Authorization header is missing or is not exactly
\* 'Bearer ' followed by the configured admin token is answered with 401, no
\* storage operation is issued and the persisted state is unchanged.
C12_UnauthorizedDeleteRejected ==
    [][ (admin.pc = "idle" /\ admin'.pc = "done"
            /\ admin'.header # Some("Bearer " \o AdminToken))
        => /\ admin'.resp = Some([ status |-> 401 ])
           /\ ~admin'.issued
           /\ kvCoverage' = kvCoverage
           /\ kvCells' = kvCells ]_vars

C12_Witness ==
    /\ admin.pc = "done"
    /\ admin.header = Some("Bearer " \o "guess")
    /\ admin.resp = Some([ status |-> 401 ])
    /\ DOMAIN Persisted # {}

\* nothing was written between the arrival of the GET and its response
NoWriteDuringGet ==
    /\ reader.quiet
    /\ NoIngestRunning
    /\ DoneClients = reader.after
    /\ reader.cleared = (admin.pc = "done" /\ admin.issued)

----------------------------------------------------------------------------
(* Claims about probes without coordinates *)

\* the probe carries neither latitude / longitude nor lat / lng
NoCoordinates(s) ==
    s.latitude = None /\ s.longitude = None /\ s.lat = None /\ s.lng = None
HasSomeCoordinate(s) == ~NoCoordinates(s)

\* request c computes its delta in this step
ComputesDelta(c) ==
    /\ reqs[c].pc = (IF deployed = "doc" THEN "put" ELSE "idle")
    /\ reqs'[c].pc # reqs[c].pc

\* C13: a probe with no coordinates never affects a cell: the delta has no
\* entry for it, the delta is the one of the batch without such probes (same
\* received, lost, samples, sources and lastUpdate), and every persisted cell
\* is the bucket of a submitted probe that has coordinates.
C13_NoCoordinatesNoEffect ==
    [][ /\ \A c \in Clients :
             ComputesDelta(c) =>
               LET batch == reqs'[c].batch
                   delta == reqs'[c].delta
               IN /\ \A hash \in DOMAIN delta :
                        \E i \in 1..Len(batch) :
                           HasSomeCoordinate(batch[i]) /\ HashOf(batch[i]) = hash
                  /\ delta = DeltaOfBatch(SelectSeq(batch, HasSomeCoordinate))
        /\ \A hash \in DOMAIN Persisted' :
             \E c \in Clients : \E i \in 1..Len(reqs'[c].batch) :
                HasSomeCoordinate(reqs'[c].batch[i]) /\ HashOf(reqs'[c].batch[i]) = hash
      ]_vars

C13_Witness ==
    \E c \in Clients :
        /\ Done(c)
        /\ Len(reqs[c].batch) = 2
        /\ NoCoordinates(reqs[c].batch[1])
        /\ HasSomeCoordinate(reqs[c].batch[2])
        /\ DOMAIN reqs[c].delta = { HashOf(reqs[c].batch[2]) }
        /\ DOMAIN Persisted = DOMAIN reqs[c].delta

----------------------------------------------------------------------------
(* Claims about the seen-id list, storage faults, the report and the totals *)

\* the sample ids of the probes of bucket hash in completed requests
MergedIds(hash) ==
    { computeSampleId(ProbeAt(x)) : x \in { y \in InBucket(hash) : Done(y[1]) } }

\* C16: in every persisted state each cell has a seen-id list of at most 150
\* entries that holds the most recently merged keys: the keys merged by a
\* request, then the ones stored before, cut at the old end (so, below the
\* cap, every merged key is in it).
C16_SeenListBounded ==
    \A hash \in DOMAIN Persisted :
        /\ "seenIds" \in DOMAIN Persisted[hash]
        /\ Len(Persisted[hash].seenIds) <= SeenCap
        /\ Cardinality(MergedIds(hash)) <= SeenCap
             => \A id \in MergedIds(hash) :
                   \E i \in 1..Len(Persisted[hash].seenIds) :
                      Persisted[hash].seenIds[i] = id

\* the buckets the valid probes of c's batch fall in
BucketsOfBatch(c) ==
    { HashOf(reqs[c].batch[i]) :
        i \in { j \in 1..Len(reqs[c].batch) : HasCoords(reqs[c].batch[j]) } }

\* the buckets of request c whose storage operation threw
FailedBuckets(c) == { h \in DOMAIN reqs[c].todo : reqs[c].todo[h] = "failed" }

\* C18: when the storage get or put of one bucket fails during an ingest
\* request, the request is still answered as a success whose summary reports
\* that bucket as failed, and the other buckets of the batch are merged.
C18_FaultAbandonsOneBucket ==
    \A c \in Clients :
        (Done(c) /\ reqs[c].fault /\ Cardinality(BucketsOfBatch(c)) >= 2) =>
            /\ reqs[c].resp # None
            /\ reqs[c].resp[1].status = 200
            /\ "failed" \in DOMAIN reqs[c].resp[1]
            /\ reqs[c].resp[1].failed = FailedBuckets(c)
            /\ \A h \in (DOMAIN reqs[c].delta) \ FailedBuckets(c) :
                  /\ h \in DOMAIN Persisted
                  /\ Persisted[h].received >= reqs[c].delta[h].received
                  /\ Persisted[h].lost >= reqs[c].delta[h].lost

\* C19: the merge report of a successful ingest request is exact: created is
\* the number of buckets touched by the batch that had no persisted cell
\* before, updated the number of touched buckets that had one, and created +
\* updated is the number of distinct buckets touched.
C19_MergeReportExact ==
    \A c \in Clients :
        (Done(c) /\ DOMAIN reqs[c].delta # {} /\ reqs[c].resp[1].status = 200) =>
            LET touched == DOMAIN reqs[c].delta
                before == DOMAIN reqs[c].local
                report == reqs[c].resp[1]
            IN /\ "cellsCreated" \in DOMAIN report
               /\ "cellsUpdated" \in DOMAIN report
               /\ report.cellsCreated = Cardinality(touched \ before)
               /\ report.cellsUpdated = Cardinality(touched \cap before)
               /\ report.cellsCreated + report.cellsUpdated = Cardinality(touched)

\* C20: in every persisted state, after any sequence of ingest requests with
\* any timestamps and any time elapsed between them, every cell has
\* received >= 0 and lost >= 0.
C20_TotalsNonNegative ==
    \A hash \in DOMAIN Persisted :
        Persisted[hash].received >= 0 /\ Persisted[hash].lost >= 0

C20_Witness ==
    /\ now > NowStart
    /\ \A c \in Clients : Done(c) /\ Len(reqs[c].batch) > 0
    /\ \E hash \in DOMAIN Persisted :
          Persisted[hash].received >= 1 /\ Persisted[hash].lost >= 1

----------------------------------------------------------------------------
(* Claims about the dedup key *)

\* a coordinate as printed with 6 decimals: its sign and its millionths
Rounded6(o) ==
    IF o = None THEN << "undefined" >>
    ELSE << o[1] < 0,
            ((IF o[1] < 0 THEN -o[1] ELSE o[1]) * 2 + StepsPerMicro)
               \div (2 * StepsPerMicro) >>

\* the two samples agree on rounded latitude and longitude, timestamp string
\* and source id
SameKeyParts(s, t) ==
    /\ Rounded6(Nullish(s.latitude, s.lat)) = Rounded6(Nullish(t.latitude, t.lat))
    /\ Rounded6(Nullish(s.longitude, s.lng)) = Rounded6(Nullish(t.longitude, t.lng))
    /\ s.timestamp = t.timestamp
    /\ s.nodeId = t.nodeId

----------------------------------------------------------------------------
(* Claims about the fold of one batch into its delta *)

Folded == pure.fn = "fold"

\* positions of the batch whose probe passes the coordinate guard
ValidAt(batch) == { i \in 1..Len(batch) : HasCoords(batch[i]) }

\* positions of the batch folded into bucket hash
FoldedInto(batch, hash) == { i \in ValidAt(batch) : HashOf(batch[i]) = hash }

\* no other probe of the batch has the dedup key of the one at position i
KeyUniqueAt(batch, i) ==
    \A j \in 1..Len(batch) :
        j # i => computeSampleId(batch[j]) # computeSampleId(batch[i])

\* the batch without its probe at position i
Without(batch, i) == SubSeq(batch, 1, i - 1) \o SubSeq(batch, i + 1, Len(batch))

\* <<received, lost>> of a bucket in a delta
CountsIn(delta, hash) ==
    IF hash \in DOMAIN delta THEN << delta[hash].received, delta[hash].lost >>
    ELSE << 0, 0 >>

SamplesIn(delta, hash) == IF hash \in DOMAIN delta THEN delta[hash].samples ELSE 0

\* C22: within one batch, the probes that share a dedup key and a bucket
\* contribute exactly one count (received or lost) to the bucket's delta, in
\* whichever order the batch lists them.
C22_OneCountPerKey ==
    ( /\ Folded
      /\ \A i \in ValidAt(pure.in.batch) :
            IsSuccess(pure.in.batch[i]) \/ IsFailed(pure.in.batch[i]) )
    => \A hash \in DOMAIN pure.out :
          pure.out[hash].received + pure.out[hash].lost
            = Cardinality({ computeSampleId(pure.in.batch[i]) :
                              i \in FoldedInto(pure.in.batch, hash) })

\* the probe has neither a success flag nor a source id
Neither(s) == s.pingSuccess = None /\ ~StrTruthy(s.nodeId)

\* C23: a probe with valid coordinates that is neither a success nor a
\* failure adds nothing to received and lost of its bucket, and adds one to
\* the samples counter where the delta has one.
C23_NeitherCountsNothing ==
    Folded =>
      \A i \in ValidAt(pure.in.batch) :
        (Neither(pure.in.batch[i]) /\ KeyUniqueAt(pure.in.batch, i)) =>
          LET hash == HashOf(pure.in.batch[i])
              rest == DeltaOf(pure.in.draft, Without(pure.in.batch, i), pure.in.now)
          IN /\ CountsIn(pure.out, hash) = CountsIn(rest, hash)
             /\ "samples" \in DOMAIN pure.out[hash]
                  => pure.out[hash].samples = SamplesIn(rest, hash) + 1

\* C24: a probe whose pingSuccess is explicitly false is a failure: it adds
\* one to lost and nothing to received of its bucket, with or without a
\* source id other than 'Unknown'.
C24_ExplicitFailureCountsLost ==
    Folded =>
      \A i \in ValidAt(pure.in.batch) :
        (pure.in.batch[i].pingSuccess = Some(FALSE) /\ KeyUniqueAt(pure.in.batch, i)) =>
          LET hash == HashOf(pure.in.batch[i])
              rest == DeltaOf(pure.in.draft, Without(pure.in.batch, i), pure.in.now)
          IN CountsIn(pure.out, hash)
               = << CountsIn(rest, hash)[1], CountsIn(rest, hash)[2] + 1 >>

\* lastUpdate of a delta entry, as a number
DeltaStamp(draft, entry) ==
    IF draft = "doc" THEN entry.lastUpdate ELSE entry.lastUpdate[1]

SetMax(S) == CHOOSE x \in S : \A y \in S : y <= x

\* C26: lastUpdate of a bucket's delta is the maximum timestamp among the
\* probes of the batch folded into the bucket, whatever their order.
C26_DeltaLastUpdateIsMax ==
    Folded =>
      \A hash \in DOMAIN pure.out :
        DeltaStamp(pure.in.draft, pure.out[hash])
          = SetMax({ pure.in.batch[i].timestamp[1] :
                       i \in FoldedInto(pure.in.batch, hash) })

\* latitude and longitude after the lat / lng fallback are both truthy
EffectiveLat(s) == IF s.latitude # None /\ s.latitude[1] # 0 THEN s.latitude ELSE s.lat
EffectiveLng(s) == IF s.longitude # None /\ s.longitude[1] # 0 THEN s.longitude ELSE s.lng
Falsy(o) == o = None \/ o[1] = 0
CoordsTruthy(s) == ~Falsy(EffectiveLat(s)) /\ ~Falsy(EffectiveLng(s))

\* the probes of a bucket that a draft counts: each one, or each dedup key
CountedIn(draft, batch, hash) ==
    LET at == { i \in 1..Len(batch) : CoordsTruthy(batch[i]) /\ HashOf(batch[i]) = hash }
    IN IF draft = "doc" THEN Cardinality({ computeSampleId(batch[i]) : i \in at })
       ELSE Cardinality(at)

\* C30: a probe is skipped by the fold exactly when its latitude or its
\* longitude, after the lat / lng fallback, is falsy: the delta is the one
\* of the batch without such probes (so a latitude or longitude of 0 creates
\* or changes no cell), and every other probe is counted in its bucket.
C30_FalsyCoordinateSkipped ==
    Folded =>
      /\ pure.out = DeltaOf(pure.in.draft, SelectSeq(pure.in.batch, CoordsTruthy),
                            pure.in.now)
      /\ \A i \in 1..Len(pure.in.batch) :
            CoordsTruthy(pure.in.batch[i]) => HashOf(pure.in.batch[i]) \in DOMAIN pure.out
      /\ \A hash \in DOMAIN pure.out :
            (IF pure.in.draft = "doc" THEN pure.out[hash].samples
             ELSE pure.out[hash].received + pure.out[hash].lost)
              = CountedIn(pure.in.draft, pure.in.batch, hash)

C30_Witness ==
    /\ Folded
    /\ Len(pure.in.batch) = 2
    /\ pure.in.batch[1].latitude = Some(0)
    /\ pure.in.batch[1].lat = None
    /\ pure.in.batch[1].longitude = Some(PlaceA[2])
    /\ pure.in.batch[2].lng = Some(PlaceB[2])
    /\ DOMAIN pure.out = { GeohashOfPlace[PlaceB] }

----------------------------------------------------------------------------
(* Claims about lastUpdate, retries in flight, the ceiling on storage      *)
(* operations and the seen-list merge                                      *)

\* lastUpdate of a persisted cell, as a number
LastUpdateOf(cell) == IF deployed = "doc" THEN cell.lastUpdate ELSE cell.lastUpdate[1]

Later(x, y) == IF x > y THEN x ELSE y

\* C25: a cell's persisted lastUpdate never moves backwards, and a merge
\* sets it to the later of the persisted lastUpdate and the delta's.
C25_LastUpdateNeverBack ==
    [][ /\ \A hash \in (DOMAIN Persisted) \cap (DOMAIN Persisted') :
             LastUpdateOf(Persisted'[hash]) >= LastUpdateOf(Persisted[hash])
        /\ \A c \in Clients :
             /\ DocMergeStep(c) =>
                  \A hash \in (DOMAIN reqs'[c].delta) \cap (DOMAIN Persisted) :
                     LastUpdateOf(Persisted'[hash])
                       = Later(LastUpdateOf(Persisted[hash]),
                               reqs'[c].delta[hash].lastUpdate)
             /\ \A hash \in (DOMAIN reqs[c].todo) \cap (DOMAIN Persisted) :
                  CellMergeStep(c, hash) =>
                     LastUpdateOf(Persisted'[hash])
                       = Later(LastUpdateOf(Persisted[hash]),
                               reqs[c].delta[hash].lastUpdate[1]) ]_vars

\* both requests carry the same single probe, which has coordinates
SameSingleProbe ==
    \A c1, c2 \in Clients :
        /\ Len(reqs[c1].batch) = 1
        /\ reqs[c1].batch = reqs[c2].batch
        /\ HasCoords(reqs[c1].batch[1])

\* C27: two ingest requests with the same single probe that run concurrently
\* leave, in every interleaving of their gets and puts, the cell's counts
\* raised once for that probe.
C27_ConcurrentRetryCountsOnce ==
    (Overlapped /\ SameSingleProbe) =>
        \A hash \in TouchedBuckets :
            /\ hash \in DOMAIN Persisted
            /\ Persisted[hash].received + Persisted[hash].lost = 1

\* the per-request ceiling on storage operations (the platform's subrequest
\* limit, 50 in the note above onRequestPost), scaled to the batches of the
\* model
SubrequestLimit == 3

\* the storage operations of request c that have taken effect
StorageOps(c) ==
    IF deployed = "doc"
    THEN (IF reqs[c].pc = "put" THEN 1
          ELSE IF Done(c) /\ Len(reqs[c].batch) > 0 /\ ~reqs[c].fault THEN 2 ELSE 0)
    ELSE Cardinality({ h \in DOMAIN reqs[c].todo : reqs[c].todo[h] \in { "put", "done" } })
           + Cardinality({ h \in DOMAIN reqs[c].todo : reqs[c].todo[h] = "done" })

\* the storage operations the deployed draft makes for the whole batch of c
NeededOps(c) ==
    IF Len(reqs[c].batch) = 0 THEN 0
    ELSE IF deployed = "doc" THEN 2
    ELSE 2 * Cardinality(BucketsOfBatch(c))

\* C28: the storage operations of one ingest request stay within the
\* ceiling, and a request whose batch touches more buckets than the ceiling
\* allows reports a partial result.
C28_StorageOpsBounded ==
    \A c \in Clients :
        /\ StorageOps(c) <= SubrequestLimit
        /\ (Done(c) /\ NeededOps(c) > SubrequestLimit)
              => "partial" \in DOMAIN reqs[c].resp[1]

\* the ids of a batch, and its probes whose id an earlier batch did not have
KeysOf(batch) == { computeSampleId(batch[i]) : i \in 1..Len(batch) }
NewProbes(earlier, batch) ==
    { s \in { batch[i] : i \in 1..Len(batch) } : computeSampleId(s) \notin KeysOf(earlier) }

\* C29: in the seen-list merge, when a delta mixes seen and new dedup keys,
\* received grows by the successful probes among the new keys and lost by
\* the failed ones, for every split of the batch into seen and new.
C29_SeenMergeAddsNewOnly ==
    ( /\ pure.fn = "seenMerge"
      /\ KeysOf(pure.in.batch) \cap KeysOf(pure.in.earlier) # {}
      /\ NewProbes(pure.in.earlier, pure.in.batch) # {} )
    => /\ pure.out.received - pure.in.cell.received
            = Cardinality({ s \in NewProbes(pure.in.earlier, pure.in.batch) :
                              IsSuccess(s) })
       /\ pure.out.lost - pure.in.cell.lost
            = Cardinality({ s \in NewProbes(pure.in.earlier, pure.in.batch) :
                              ~IsSuccess(s) })

----------------------------------------------------------------------------
(* Claims about the token check without a configured token *)

\* C32: when no admin token is configured, no DELETE request is authorized:
\* whatever its Authorization header, it is answered with 401 and the
\* persisted state is unchanged.
C32_NoTokenNoDelete ==
    [][ (admin.token = None /\ admin.pc = "idle" /\ admin'.pc = "done")
        => /\ admin'.resp = Some([ status |-> 401 ])
           /\ ~admin'.issued
           /\ kvCoverage' = kvCoverage
           /\ kvCells' = kvCells ]_vars

----------------------------------------------------------------------------
(* Claims about the merge of the single-document draft *)

\* the put of c's merged document takes effect in this step
DocPutStep(c) ==
    /\ deployed = "doc"
    /\ reqs[c].pc = "put" /\ reqs'[c].pc = "done"
    /\ ~reqs'[c].fault

\* the buckets of the batch that the request found persisted, with an older
\* lastUpdate than the batch's
NewerThanRead(c) ==
    { hash \in (DOMAIN reqs'[c].delta) \cap (DOMAIN reqs[c].local) :
        reqs'[c].delta[hash].lastUpdate > reqs[c].local[hash].lastUpdate }

============================================================================
